---------------------------- MODULE Spec2Model ----------------------------
(***************************************************************************)
(* A model of the render service of the wedding-design assistant:          *)
(*   - callWithRetry, the bounded retry with exponential backoff           *)
(*     (src/services/geminiService.ts);                                    *)
(*   - getEmpowermentPrompt and the prompt composition of                  *)
(*     generateWeddingRender;                                              *)
(*   - the render_history table behind supabase, with the real client and  *)
(*     the offline mock client (src/unnamed/part_000);                     *)
(*   - saveRenderHistory, submitFeedback and RatingSystem.handleSubmit.    *)
(*                                                                         *)
(* Text is modelled as a sequence: error messages and JSON text as         *)
(* sequences of characters (so that String.includes is a real substring    *)
(* search), prompts as sequences of template segments (so that a template  *)
(* literal is a concatenation and "contains" is a contiguous-subsequence   *)
(* search).  A nullable value is a sequence of length at most one.         *)
(***************************************************************************)
EXTENDS Integers, Sequences, FiniteSets, TLC

VARIABLES
    rt,       \* the running callWithRetry invocation and the trace of what it did
    cls,      \* the error under classification and the verdict on it
    emp,      \* the selections handed to getEmpowermentPrompt and its result
    tx,       \* the options whose textile phrase is composed, and the phrase
    lc,       \* how the two selects of the observed getLearningContext call answered
    client,   \* which supabase client the module created: "real" or "mock"
    apiKey,   \* whether process.env.API_KEY is set
    store,    \* the rows of render_history (real client only)
    gen,      \* the running generateWeddingRender call
    runs,     \* number of generateWeddingRender calls started
    ui,       \* the mounted RatingSystem component and its submitFeedback call
    pair,     \* the callWithRetry invocations that run side by side
    ig        \* the IdeaGenerator page: its props, its state and its handleGenerate call

vars == <<rt, cls, emp, tx, lc, client, apiKey, store, gen, runs, ui, pair, ig>>

-----------------------------------------------------------------------------
(* Bounds of the model.                                                    *)

\* Largest `retries` argument tried on callWithRetry in isolation.
MaxAttempts == 3

\* Number of generateWeddingRender calls in one behaviour.
MaxRuns == 2

\* Number of times the parent mounts a RatingSystem in one behaviour.
MaxMounts == 1

\* Largest table, in rows, of the freely composed tables that
\* getLearningContext is run against.
MaxRows == 4

\* Largest table of low-rated rows that getLearningContext is run against:
\* one row more than the negative select's limit of 10.
MaxLong == 11

\* Longest asset list of an IdeaGenerator page.
MaxAssets == 2

-----------------------------------------------------------------------------
(* Nullable values and text.                                               *)

Null == <<>>

Some(x) == <<x>>

IsNull(m) == m = <<>>

\* String.prototype.includes: `sub` occurs in `s` as a contiguous run.
Includes(s, sub) ==
    \E k \in 0..(Len(s) - Len(sub)) :
        \A j \in 1..Len(sub) : s[k + j] = sub[j]

RECURSIVE Concat(_)
\* Array.prototype.join(''): the pieces one after another.
Concat(pieces) ==
    IF pieces = <<>> THEN <<>> ELSE Head(pieces) \o Concat(Tail(pieces))

RECURSIVE JoinWith(_, _)
\* Array.prototype.join(sep).
JoinWith(pieces, sep) ==
    IF pieces = <<>> THEN <<>>
    ELSE IF Len(pieces) = 1 THEN pieces[1]
    ELSE pieces[1] \o sep \o JoinWith(Tail(pieces), sep)

Digit(d) == <<"0", "1", "2", "3", "4", "5", "6", "7", "8", "9">>[d + 1]

RECURSIVE Digits(_)
\* The decimal text of a natural number, as JSON.stringify writes it.
Digits(n) == IF n < 10 THEN <<Digit(n)>> ELSE Digits(n \div 10) \o <<Digit(n % 10)>>

-----------------------------------------------------------------------------
(* Error values thrown by the remote call.  A field is a JSON value:       *)
(* absent, a number, or a string.                                          *)

JAbsent == [k |-> "absent", n |-> 0, s |-> <<>>]

JNum(n) == [k |-> "num", n |-> n, s |-> <<>>]

JStr(s) == [k |-> "str", n |-> 0, s |-> s]

TxtOverloaded == <<"o", "v", "e", "r", "l", "o", "a", "d", "e", "d">>

Txt503 == <<"5", "0", "3">>

TxtUnavailable == <<"U", "N", "A", "V", "A", "I", "L", "A", "B", "L", "E">>

TxtInvalid == <<"I", "N", "V", "A", "L", "I", "D">>

TxtIsOverloaded == <<"i", "s", " ">> \o TxtOverloaded

TxtHttp503 == <<"H", "T", "T", "P", " ">> \o Txt503

TxtBadRequest == <<"b", "a", "d", " ", "r", "e", "q">>

TxtQuota == <<"q", "u", "o", "t", "a">>

TxtRef15032 == <<"r", "e", "f", " ", "1", "5", "0", "3", "2">>

\* An error object: message, status, code, the wrapped error object's code
\* and status (hasError tells whether e.error exists), and one more field.
MkErr(message, status, code, hasError, ecode, estatus, details) ==
    [message |-> message, status |-> status, code |-> code,
     hasError |-> hasError, ecode |-> ecode, estatus |-> estatus,
     details |-> details]

NoErr == MkErr(JAbsent, JAbsent, JAbsent, FALSE, JAbsent, JAbsent, JAbsent)

\* JSON.stringify of one value.
JsonValue(v) ==
    IF v.k = "num" THEN Digits(v.n) ELSE <<"\"">> \o v.s \o <<"\"">>

\* One "key":value member, or nothing when the field is absent.
JsonMember(key, v) ==
    IF v.k = "absent" THEN <<>>
    ELSE <<(<<"\"">> \o key \o <<"\"", ":">> \o JsonValue(v))>>

JsonObject(members) == <<"{">> \o JoinWith(members, <<",">>) \o <<"}">>

\* JSON.stringify(e) of an error object.
JsonStringify(e) ==
    JsonObject(
        JsonMember(<<"message">>, e.message)
        \o JsonMember(<<"status">>, e.status)
        \o JsonMember(<<"code">>, e.code)
        \o (IF e.hasError
            THEN <<(<<"\"", "error", "\"", ":">>
                    \o JsonObject(JsonMember(<<"code">>, e.ecode)
                                  \o JsonMember(<<"status">>, e.estatus)))>>
            ELSE <<>>)
        \o JsonMember(<<"details">>, e.details))

\* const msg = e?.message || JSON.stringify(e)
ErrMsg(e) ==
    IF e.message.k = "str" /\ e.message.s # <<>> THEN e.message.s
    ELSE JsonStringify(e)

\* The isLoadError expression of callWithRetry.
IsLoadError(e) ==
    \/ Includes(ErrMsg(e), TxtOverloaded)
    \/ Includes(ErrMsg(e), Txt503)
    \/ e.status = JNum(503)
    \/ e.code = JNum(503)
    \/ (e.hasError /\ e.ecode = JNum(503))
    \/ (e.hasError /\ e.estatus = JStr(TxtUnavailable))

\* The wrapped error objects tried.
WrappedErrors ==
    { <<FALSE, JAbsent, JAbsent>>,
      <<TRUE, JNum(503), JStr(TxtUnavailable)>>,
      <<TRUE, JNum(400), JStr(TxtInvalid)>>,
      <<TRUE, JAbsent, JNum(503)>>,
      <<TRUE, JNum(500), JStr(TxtUnavailable)>> }

\* The error values the classifier is tried on.
ErrorValues ==
    { MkErr(m, s, c, w[1], w[2], w[3], d) :
        m \in {JAbsent, JStr(TxtIsOverloaded), JStr(TxtHttp503),
               JStr(TxtBadRequest), JStr(TxtQuota)},
        s \in {JAbsent, JNum(503), JNum(400)},
        c \in {JAbsent, JNum(503), JNum(429)},
        w \in WrappedErrors,
        d \in {JAbsent, JStr(TxtRef15032)} }

\* The errors the remote call raises in the retry runs: two overload
\* errors and two bad-request errors.
ErrOverloaded ==
    MkErr(JStr(TxtIsOverloaded), JAbsent, JAbsent, FALSE, JAbsent, JAbsent, JAbsent)

ErrUnavailable ==
    MkErr(JAbsent, JAbsent, JAbsent, TRUE, JNum(503), JStr(TxtUnavailable), JAbsent)

ErrBadRequest ==
    MkErr(JStr(TxtBadRequest), JNum(400), JAbsent, FALSE, JAbsent, JAbsent, JAbsent)

ErrInvalid ==
    MkErr(JAbsent, JAbsent, JAbsent, TRUE, JNum(400), JStr(TxtInvalid), JAbsent)

ErrSample == {ErrOverloaded, ErrUnavailable, ErrBadRequest, ErrInvalid}

-----------------------------------------------------------------------------
(* callWithRetry(fn, retries = 5, delay = 3000).                           *)

DefaultRetries == 5

DefaultDelay == 3000

\* What the remote call resolves with: the text of the response and whether
\* a candidate part carries inline image data.
Resp(text, image) == [text |-> text, image |-> image]

NoResp == Resp(<<>>, FALSE)

SceneText == <<"SCENE DESCRIPTION BY THE MODEL">>

Responses == { Resp(t, b) : t \in {<<>>, SceneText}, b \in BOOLEAN }

\* One entry of the trace of an invocation.
Ev(t, e, d, v) == [t |-> t, e |-> e, d |-> d, v |-> v]

EvCall == Ev("call", NoErr, 0, NoResp)

EvFail(e) == Ev("fail", e, 0, NoResp)

EvSleep(d) == Ev("sleep", NoErr, d, NoResp)

EvOk(v) == Ev("ok", NoErr, 0, v)

RtIdle ==
    [pc |-> "idle", caller |-> "none", i |-> 0, retries |-> 0, delay |-> 0,
     initialDelay |-> 0, lastError |-> NoErr, result |-> NoResp,
     thrown |-> NoErr, trace |-> <<>>]

\* Entry of callWithRetry up to its first await: the loop test i < retries
\* and, when it passes, the first fn().  With retries <= 0 the loop body
\* never runs and line 40 throws the unset lastError.
RtEnter(caller, retries, delay) ==
    [RtIdle EXCEPT !.caller = caller, !.retries = retries, !.delay = delay,
                   !.initialDelay = delay,
                   !.pc = IF 0 < retries THEN "calling" ELSE "thrown",
                   !.trace = IF 0 < retries THEN <<EvCall>> ELSE <<>>]

\* A retry test that forgets the classification.
ShouldRetryEager(r, e) == r.i < r.retries - 1

\* The test that sends a failed attempt to the backoff sleep.
ShouldRetry(r, e) == IsLoadError(e) /\ r.i < r.retries - 1

\* A catch block that throws the error it had remembered before.
ThrownFirst(r, e) == IF r.i = 0 THEN e ELSE r.lastError

\* The error thrown by the catch block: `throw e`.
ThrownError(r, e) == e

\* A backoff that never grows.
NextDelayFlat(d) == d

\* delay *= 2
NextDelay(d) == d * 2

\* An `await fn()` without the return: the loop goes on after a success.
RtResolveNoReturn(r, v) ==
    [r EXCEPT !.result = v, !.i = r.i + 1,
              !.pc = IF r.i + 1 < r.retries THEN "calling" ELSE "returned",
              !.trace = Append(r.trace, EvOk(v))
                        \o (IF r.i + 1 < r.retries THEN <<EvCall>> ELSE <<>>)]

\* `return await fn()` when fn's promise resolves with v.
RtResolve(r, v) ==
    [r EXCEPT !.pc = "returned", !.result = v,
              !.trace = Append(r.trace, EvOk(v))]

\* The catch block when fn's promise rejects with e: either start the
\* backoff sleep or throw.
RtReject(r, e) ==
    IF ShouldRetry(r, e)
    THEN [r EXCEPT !.pc = "sleeping", !.lastError = e,
                   !.trace = r.trace \o <<EvFail(e), EvSleep(r.delay)>>]
    ELSE [r EXCEPT !.pc = "thrown", !.lastError = e,
                   !.thrown = ThrownError(r, e),
                   !.trace = Append(r.trace, EvFail(e))]

\* A backoff sleep whose continuation never runs.
RtWakeAsleep(r) == r

\* The timer of the backoff sleep fires: double the delay, `continue`, i++,
\* the loop test and the next fn(), or line 40 when the loop is over.
RtWake(r) ==
    LET next == [r EXCEPT !.delay = NextDelay(r.delay), !.i = r.i + 1]
    IN IF next.i < next.retries
       THEN [next EXCEPT !.pc = "calling", !.trace = Append(r.trace, EvCall)]
       ELSE [next EXCEPT !.pc = "thrown", !.thrown = next.lastError]

RtDone(r) == r.pc \in {"returned", "thrown"}

\* Observations on a trace.
RECURSIVE CountOf(_, _)
CountOf(tr, t) ==
    IF tr = <<>> THEN 0
    ELSE (IF Head(tr).t = t THEN 1 ELSE 0) + CountOf(Tail(tr), t)

RECURSIVE Only(_, _)
\* The entries of kind t, in order.
Only(tr, t) ==
    IF tr = <<>> THEN <<>>
    ELSE (IF Head(tr).t = t THEN <<Head(tr)>> ELSE <<>>) \o Only(Tail(tr), t)

RECURSIVE Pow2(_)
Pow2(n) == IF n = 0 THEN 1 ELSE 2 * Pow2(n - 1)

-----------------------------------------------------------------------------
(* RenderOptions and getEmpowermentPrompt.  A prompt is a sequence of      *)
(* segments: the fixed texts of the template literals and the values       *)
(* interpolated into them.                                                 *)

None == "none"

MkOptions(category, style, colorPalette, surfaceMaterial, textileMaterial, textileColor1, textileColor2, hiddenAIContext) ==
    [category |-> category, style |-> style, colorPalette |-> colorPalette,
     surfaceMaterial |-> surfaceMaterial, textileMaterial |-> textileMaterial,
     textileColor1 |-> textileColor1, textileColor2 |-> textileColor2,
     additionalPrompt |-> "user notes", isAutoFocus |-> TRUE,
     cameraPreset |-> "CINEMATIC", hiddenAIContext |-> hiddenAIContext]

\* Every combination of "none" and a concrete value for the seven choices.
Selections ==
    { MkOptions(c, s, p, m, t, c1, c2, <<>>) :
        c \in {None, "stage"}, s \in {None, "classic"}, p \in {None, "pastel"},
        m \in {None, "marble"}, t \in {None, "silk"}, c1 \in {None, "ivory"},
        c2 \in {None, "gold"} }

NoOptions == MkOptions(None, None, None, None, None, None, None, <<>>)

DirCategory == "- PHAN TICH CAU TRUC GOC"

DirStyle == "- TRICH XUAT PHONG CACH"

DirPalette == "- BAO TON BANG MAU"

DirSurface == "- NANG CAP VAT LIEU THUC TE"

DirTextile == "- TOI UU VAT LIEU VAI"

DirColor1 == "- TOI UU MAU SAC CHINH VAI"

DirColor2 == "- TOI UU MAU SAC PHU VAI"

Directives ==
    {DirCategory, DirStyle, DirPalette, DirSurface, DirTextile, DirColor1, DirColor2}

EmpHeader == "--- CHE DO AI TUAN THU TOI DA ---"

EmpFooter == "MUC TIEU: ... 100%"

\* A primary-colour test that ignores the textile material.
PushColor1Unguarded(sel) == sel.textileColor1 = None

\* The condition under which the primary-colour directive is pushed.
PushColor1(sel) == sel.textileMaterial # None /\ sel.textileColor1 = None

\* A secondary-colour test that never passes.
PushColor2Never(sel) == FALSE

\* The condition under which the secondary-colour directive is pushed.
PushColor2(sel) == sel.textileMaterial # None /\ sel.textileColor2 = None

\* The autoInstructions array after the seven tests.
AutoInstructions(sel) ==
    (IF sel.category = None THEN <<DirCategory>> ELSE <<>>)
    \o (IF sel.style = None THEN <<DirStyle>> ELSE <<>>)
    \o (IF sel.colorPalette = None THEN <<DirPalette>> ELSE <<>>)
    \o (IF sel.surfaceMaterial = None THEN <<DirSurface>> ELSE <<>>)
    \o (IF sel.textileMaterial = None THEN <<DirTextile>> ELSE <<>>)
    \o (IF PushColor1(sel) THEN <<DirColor1>> ELSE <<>>)
    \o (IF PushColor2(sel) THEN <<DirColor2>> ELSE <<>>)

\* The lines of an array as join('\n') lays them out.
Lines(arr) == JoinWith([k \in 1..Len(arr) |-> <<arr[k]>>], <<"\n">>)

getEmpowermentPrompt(sel) ==
    IF Len(AutoInstructions(sel)) = 0 THEN <<>>
    ELSE <<EmpHeader>> \o Lines(AutoInstructions(sel)) \o <<EmpFooter>>

\* Number of directives in a block of text.
DirectiveCount(block) == Cardinality({k \in 1..Len(block) : block[k] \in Directives})

\* Number of the seven choice fields equal to "none".
NoneCount(sel) ==
    Cardinality({f \in {"category", "style", "colorPalette", "surfaceMaterial",
                        "textileMaterial", "textileColor1", "textileColor2"} :
                    sel[f] = None})

-----------------------------------------------------------------------------
(* The render_history table and the supabase client.                       *)

\* Row identifiers.  The real table assigns RowId(n); the mock client hands
\* out the fixed 'offline-mode-id'.
RowId(n) == [k |-> "row", n |-> n]

OfflineId == [k |-> "offline-mode-id", n |-> 0]

UnknownId == [k |-> "unknown", n |-> 0]

\* A row that loses the prompt.
NewRowNoPrompt(id, options, masterPrompt) ==
    [id |-> id, category |-> options.category, style |-> options.style,
     master_prompt |-> <<>>, rating |-> Null, feedback_tags |-> Null]

\* The row of saveRenderHistory's insert; created_at is the insertion rank.
NewRow(id, options, masterPrompt) ==
    [id |-> id, category |-> options.category, style |-> options.style,
     master_prompt |-> masterPrompt, rating |-> Null, feedback_tags |-> Null]

Reverse(rows) == [k \in 1..Len(rows) |-> rows[Len(rows) + 1 - k]]

Limit(rows, n) == SubSeq(rows, 1, IF Len(rows) < n THEN Len(rows) ELSE n)

\* A positive select that forgets the style filter.
PositiveQueryAnyStyle(rows, category, style) ==
    LET keep(r) == /\ r.category = category
                   /\ r.rating = Some(5)
    IN Limit(Reverse(SelectSeq(rows, keep)), 3)

\* A positive select in ascending order of created_at.
PositiveQueryOldest(rows, category, style) ==
    LET keep(r) == /\ r.category = category
                   /\ r.style = style
                   /\ r.rating = Some(5)
    IN Limit(SelectSeq(rows, keep), 3)

\* select master_prompt where category, style, rating = 5
\* order by created_at desc limit 3
PositiveQuery(rows, category, style) ==
    LET keep(r) == /\ r.category = category
                   /\ r.style = style
                   /\ r.rating = Some(5)
    IN Limit(Reverse(SelectSeq(rows, keep)), 3)

\* A negative select that takes every rating below five.
NegativeQueryBelowFive(rows, category) ==
    LET keep(r) == /\ r.category = category
                   /\ ~IsNull(r.rating) /\ r.rating[1] < 5
                   /\ ~IsNull(r.feedback_tags)
    IN Limit(SelectSeq(rows, keep), 10)

\* select feedback_tags where category, rating < 3, feedback_tags not null
\* limit 10
NegativeQuery(rows, category) ==
    LET keep(r) == /\ r.category = category
                   /\ ~IsNull(r.rating) /\ r.rating[1] < 3
                   /\ ~IsNull(r.feedback_tags)
    IN Limit(SelectSeq(rows, keep), 10)

\* A flattening that keeps repeated tags.
DistinctKeepsAll(arr, seen) == arr

RECURSIVE Distinct(_, _)
\* Array.from(new Set(arr)): first occurrences, in order.
Distinct(arr, seen) ==
    IF arr = <<>> THEN <<>>
    ELSE IF Head(arr) \in seen THEN Distinct(Tail(arr), seen)
    ELSE <<Head(arr)>> \o Distinct(Tail(arr), seen \cup {Head(arr)})

ExampleSep == "\n--- EXAMPLE ---\n"

\* An examples text that is never empty.
ExamplesOfPlaceholder(positive) ==
    IF IsNull(positive) \/ positive = Some(<<>>) THEN <<"No examples.">>
    ELSE JoinWith([k \in 1..Len(positive[1]) |-> positive[1][k].master_prompt],
                  <<ExampleSep>>)

\* positive?.map(p => p.master_prompt).join(sep) || ""  (null data gives "")
ExamplesOf(positive) ==
    IF IsNull(positive) THEN <<>>
    ELSE JoinWith([k \in 1..Len(positive[1]) |-> positive[1][k].master_prompt],
                  <<ExampleSep>>)

\* commonComplaints.slice(0, 5).join(', ')  (null data gives no tags)
ConstraintsOf(negative) ==
    LET all == IF IsNull(negative) THEN <<>>
               ELSE Concat([k \in 1..Len(negative[1]) |->
                               negative[1][k].feedback_tags[1]])
        common == Distinct(all, {})
    IN JoinWith([k \in 1..Len(Limit(common, 5)) |-> <<common[k]>>], <<", ">>)

\* A select that hands its rows over even when it reports an error.
QueryDataKept(kind, rows) == Some(rows)

\* What a select resolves with: Some(rows), or Null when the client reports
\* an error (data: null).  The mock client always resolves with data: [].
QueryData(kind, rows) == IF kind = "data" THEN Some(rows) ELSE Null

-----------------------------------------------------------------------------
(* Prompt composition of generateWeddingRender.                            *)

\* A textile phrase that always names two colours.
TextileDetailsTwoColors(o) ==
    IF o.textileMaterial # None
    THEN <<o.textileMaterial, " in a primary color of ", o.textileColor1,
           " and a secondary color of ", o.textileColor2>>
    ELSE <<"appropriate luxury fabrics and draping based on context">>

\* A textile phrase that falls back whenever no colour is chosen.
TextileDetailsByColors(o) ==
    IF o.textileColor1 = None /\ o.textileColor2 = None
    THEN <<"appropriate luxury fabrics and draping based on context">>
    ELSE <<o.textileMaterial, " in a primary color of ", o.textileColor1,
           " and a secondary color of ", o.textileColor2>>

\* textileDetails
TextileDetails(o) ==
    IF o.textileMaterial # None
    THEN <<o.textileMaterial>>
         \o (IF o.textileColor1 # None /\ o.textileColor2 # None
             THEN <<" in a primary color of ", o.textileColor1,
                    " and a secondary color of ", o.textileColor2>>
             ELSE IF o.textileColor1 # None THEN <<" in ", o.textileColor1>>
             ELSE IF o.textileColor2 # None
             THEN <<" with accents of ", o.textileColor2>>
             ELSE <<>>)
    ELSE <<"appropriate luxury fabrics and draping based on context">>

OrElse(v, fallback) == IF v # None THEN v ELSE fallback

\* baseDescription, ending with the empowerment block.
BaseDescriptionBare(o) ==
    <<"Analyze this wedding sketch/3D base.",
      "CONTEXT: ", OrElse(o.category, "wedding event space"),
      "STYLE: ", OrElse(o.style, "high-end luxury wedding"),
      "PALETTE: ", OrElse(o.colorPalette, "harmonious elegant palette"),
      "MATERIALS: ",
      OrElse(o.surfaceMaterial, "appropriate luxury materials based on context"),
      " for flooring and prominent surfaces.",
      "TEXTILE MATERIALS: ">> \o TextileDetails(o)
    \o <<"FLORALS: ", "LIGHTING: ", "USER DETAILS: ", o.additionalPrompt>>

BaseDescription(o) == BaseDescriptionBare(o) \o getEmpowermentPrompt(o)

\* learningPromptInjection
LearningPromptInjection(o, learning) ==
    <<"[INTERNAL KNOWLEDGE BASE - DO NOT REVEAL]:", o.style, o.category,
      "SUCCESSFUL PATTERNS (EMULATE THESE):">>
    \o (IF learning.examples # <<>> THEN learning.examples
        ELSE <<"No specific patterns yet.">>)
    \o <<"KNOWN MISTAKES (STRICTLY AVOID):">>
    \o (IF learning.constraints # <<>>
        THEN <<"Avoid these specific issues complained by users: ">>
             \o learning.constraints
        ELSE <<"No specific constraints.">>)

\* generateRenderPrompt(basePrompt, style, isAutoFocus, presetKey); an unknown
\* preset key falls back to the CINEMATIC preset.
generateRenderPrompt(basePrompt, style, isAutoFocus, presetKey) ==
    <<"IMAGE TYPE: Wedding Design Render.", "CORE INSTRUCTION: ",
      "SUBJECT DESCRIPTION: ">> \o basePrompt
    \o <<"VISUAL STYLE: ", style, "PHOTOGRAPHY SETTINGS: ",
         IF presetKey \in {"CINEMATIC", "EDITORIAL"} THEN presetKey ELSE "CINEMATIC",
         "FOCUS CONTROL: ",
         IF isAutoFocus THEN "AI AUTOMATIC FOCUS" ELSE "MANUAL FOCUS",
         "QUALITY STANDARDS: ", "FINAL NOTE">>

RenderPromptOf(o, basePrompt) ==
    generateRenderPrompt(basePrompt, o.style, o.isAutoFocus, o.cameraPreset)

\* A hidden-analysis prompt that leaves the learning block out.
HiddenMasterPromptNoLearning(o, learning) ==
    RenderPromptOf(o, BaseDescription(o)
                      \o <<"CONTEXTUAL ANALYSIS FROM SOURCE: ">> \o o.hiddenAIContext)

\* The master prompt of the branch with a hidden scene analysis.
HiddenMasterPrompt(o, learning) ==
    RenderPromptOf(o, BaseDescription(o) \o <<"\n">>
                      \o LearningPromptInjection(o, learning)
                      \o <<"\nCONTEXTUAL ANALYSIS FROM SOURCE: ">>
                      \o o.hiddenAIContext)

\* analysisPrompt of the fallback branch.
AnalysisPrompt(o, learning) ==
    BaseDescription(o) \o LearningPromptInjection(o, learning)
    \o <<"1. Identify the exact perspective", "2. Identify structural anchors",
         "3. Generate a comprehensive description", "Return ONLY the description.">>

\* The master prompt after the analysis call resolved with `text`:
\* sceneDescription = reasoningResponse.text || baseDescription.
AnalysedMasterPrompt(o, text) ==
    RenderPromptOf(o, IF text # <<>> THEN text ELSE BaseDescription(o))

\* A catch block that builds the prompt from nothing.
FallbackMasterPromptBare(o) == RenderPromptOf(o, <<>>)

\* The master prompt of the catch block around the analysis call.
FallbackMasterPrompt(o) == RenderPromptOf(o, BaseDescription(o))

-----------------------------------------------------------------------------
(* saveRenderHistory and submitFeedback against the two clients.           *)

\* A saveRenderHistory that inserts a row without the prompt.
saveRenderHistoryOther(cl, kind, rows, options, masterPrompt) ==
    IF cl = "mock"
    THEN [store |-> rows, renderId |-> Some(OfflineId), inserted |-> Null]
    ELSE IF kind = "data"
    THEN [store |-> Append(rows, NewRowNoPrompt(RowId(Len(rows) + 1), options, masterPrompt)),
          renderId |-> Some(RowId(Len(rows) + 1)),
          inserted |-> Some(RowId(Len(rows) + 1))]
    ELSE [store |-> rows, renderId |-> Null, inserted |-> Null]

\* A saveRenderHistory whose catch block hands out an identifier.
saveRenderHistoryNoCatch(cl, kind, rows, options, masterPrompt) ==
    IF cl = "mock"
    THEN [store |-> rows, renderId |-> Some(OfflineId), inserted |-> Null]
    ELSE IF kind = "data"
    THEN [store |-> Append(rows, NewRow(RowId(Len(rows) + 1), options, masterPrompt)),
          renderId |-> Some(RowId(Len(rows) + 1)),
          inserted |-> Some(RowId(Len(rows) + 1))]
    ELSE [store |-> rows, renderId |-> Some(UnknownId), inserted |-> Null]

\* saveRenderHistory(options, masterPrompt) once the insert has answered.
\* Real client: `kind` is "data" (row inserted and returned), "error"
\* ({data: null, error}) or "throw"; the mock client's single() always
\* resolves with {data: {id: 'offline-mode-id'}, error: null}.
saveRenderHistory(cl, kind, rows, options, masterPrompt) ==
    IF cl = "mock"
    THEN [store |-> rows, renderId |-> Some(OfflineId), inserted |-> Null]
    ELSE IF kind = "data"
    THEN [store |-> Append(rows, NewRow(RowId(Len(rows) + 1), options, masterPrompt)),
          renderId |-> Some(RowId(Len(rows) + 1)),
          inserted |-> Some(RowId(Len(rows) + 1))]
    ELSE [store |-> rows, renderId |-> Null, inserted |-> Null]

\* An update that writes the tags and leaves the rating.
UpdateRowsTagsOnly(rows, renderId, rating, tags) ==
    [k \in 1..Len(rows) |->
        IF rows[k].id = renderId
        THEN [rows[k] EXCEPT !.feedback_tags = Some(tags)]
        ELSE rows[k]]

\* update({rating, feedback_tags}).eq('id', renderId) on the table.
UpdateRows(rows, renderId, rating, tags) ==
    [k \in 1..Len(rows) |->
        IF rows[k].id = renderId
        THEN [rows[k] EXCEPT !.rating = Some(rating), !.feedback_tags = Some(tags)]
        ELSE rows[k]]

MatchCount(rows, renderId) ==
    Cardinality({k \in 1..Len(rows) : rows[k].id = renderId})

\* submitFeedback(renderId, rating, tags) once the update has answered: it
\* throws exactly when the answer carries an error.  The real client answers
\* "ok" (the matching rows updated, error: null) or "error"; the mock
\* client's thenable always answers {data: [], error: null}.
submitFeedback(cl, kind, rows, renderId, rating, tags) ==
    IF cl = "mock"
    THEN [store |-> rows, rejected |-> FALSE, updated |-> 0]
    ELSE IF kind = "ok"
    THEN [store |-> UpdateRows(rows, renderId, rating, tags), rejected |-> FALSE,
          updated |-> MatchCount(rows, renderId)]
    ELSE [store |-> rows, rejected |-> TRUE, updated |-> 0]

\* The answers a client can give to a select or an insert, and to an update.
SelectKinds(cl) == IF cl = "mock" THEN {"data"} ELSE {"data", "error", "throw"}

UpdateKinds(cl) == IF cl = "mock" THEN {"ok"} ELSE {"ok", "error"}

\* The table as a client's select sees it: the mock client has no table.
Visible(cl, rows) == IF cl = "mock" THEN <<>> ELSE rows

-----------------------------------------------------------------------------
(* generateWeddingRender.                                                  *)

\* The star buttons.
Stars == 1..5

\* The feedback tags offered: the first of FEEDBACK_TAGS.
FeedbackTags == {"Sai bo cuc goc"}

\* The state of a RatingSystem component before it is mounted.
UiIdle ==
    [mounted |-> FALSE, mounts |-> 0, renderId |-> UnknownId, rating |-> 0,
     selectedTags |-> <<>>, isSubmitting |-> FALSE, isSuccess |-> FALSE,
     pc |-> "idle", sent |-> [renderId |-> UnknownId, rating |-> 0, tags |-> <<>>],
     outcome |-> "none", updated |-> 0, rewarded |-> FALSE, alerted |-> FALSE,
     timer |-> FALSE, rated |-> FALSE]

NoLearning == [examples |-> <<>>, constraints |-> <<>>]

GenIdle ==
    [pc |-> "idle", options |-> NoOptions, positive |-> Null,
     learning |-> NoLearning, empowerment |-> <<>>, branch |-> "none",
     sceneText |-> <<>>,
     analysisPrompt |-> <<>>, masterPrompt |-> <<>>, renderText |-> Null,
     imageUrl |-> FALSE, renderId |-> Null, inserted |-> Null, error |-> "none"]

\* The options of the generation runs: everything left to the system and
\* no scene analysis, or everything but the secondary colour chosen and a
\* pre-computed scene analysis.
AppOptions ==
    { MkOptions(None, None, None, None, None, None, None, <<>>),
      MkOptions("stage", "classic", "pastel", "marble", "silk", "ivory", None,
                <<"HIDDEN SCENE ANALYSIS">>) }

\* Step 2 up to its await: the render call is handed to callWithRetry with
\* masterPrompt as its text part.
StartRender(g, masterPrompt) ==
    [gen |-> [g EXCEPT !.pc = "render", !.masterPrompt = masterPrompt,
                       !.renderText = Some(masterPrompt)],
     rt |-> RtEnter("render", DefaultRetries, DefaultDelay)]

\* From the return of getLearningContext to the next await: the empowerment
\* block, the prompts, and the analysis call or directly the render call.
AfterLearning(g, learning) ==
    LET o == g.options
        g1 == [g EXCEPT !.learning = learning, !.positive = Null,
                        !.empowerment = getEmpowermentPrompt(o)]
    IN IF o.hiddenAIContext # <<>>
       THEN StartRender([g1 EXCEPT !.branch = "hidden"],
                        HiddenMasterPrompt(o, learning))
       ELSE [gen |-> [g1 EXCEPT !.pc = "analysis",
                                !.analysisPrompt = AnalysisPrompt(o, learning)],
             rt |-> RtEnter("analysis", DefaultRetries, DefaultDelay)]

\* A continuation that saves the history whatever the render call returned.
AfterRetrySavesAnyResponse(g, r) ==
    IF g.pc = "analysis"
    THEN IF r.pc = "returned"
         THEN StartRender([g EXCEPT !.branch = "analysed",
                                    !.sceneText = r.result.text],
                          AnalysedMasterPrompt(g.options, r.result.text))
         ELSE StartRender([g EXCEPT !.branch = "fallback"],
                          FallbackMasterPrompt(g.options))
    ELSE IF r.pc = "returned"
         THEN [gen |-> [g EXCEPT !.pc = "saving"], rt |-> r]
         ELSE [gen |-> [g EXCEPT !.pc = "thrown", !.error = "render error"],
               rt |-> r]

\* The continuation of generateWeddingRender when its callWithRetry call
\* has returned or thrown.
AfterRetry(g, r) ==
    IF g.pc = "analysis"
    THEN IF r.pc = "returned"
         THEN StartRender([g EXCEPT !.branch = "analysed",
                                    !.sceneText = r.result.text],
                          AnalysedMasterPrompt(g.options, r.result.text))
         ELSE StartRender([g EXCEPT !.branch = "fallback"],
                          FallbackMasterPrompt(g.options))
    ELSE IF r.pc = "returned"
         THEN IF r.result.image
              THEN [gen |-> [g EXCEPT !.pc = "saving"], rt |-> r]
              ELSE [gen |-> [g EXCEPT !.pc = "thrown", !.error = "no image"],
                    rt |-> r]
         ELSE [gen |-> [g EXCEPT !.pc = "thrown", !.error = "render error"],
               rt |-> r]

-----------------------------------------------------------------------------
(* generateIdeaRender and IdeaGenerator.handleGenerate.  An asset list is  *)
(* the sequence of its assets' `image` fields: TRUE for a picture, FALSE   *)
(* for null.                                                               *)

\* const COST = 40
Cost == 40

\* requestParts as the render call sends it: the sketch, the picture of
\* every asset that has one (tagged with the asset's position in the list),
\* and the text of masterPrompt.
requestParts(assets) ==
    <<(<<"sketch", 0>>)>>
    \o Concat([k \in 1..Len(assets) |->
                  IF assets[k] THEN <<(<<"image", k>>)>> ELSE <<>>])
    \o <<(<<"text", 0>>)>>

\* The part number assetInstructions cites for each asset: `index + 2` for
\* an asset with a picture (index counts from 0) and none (0) for an asset
\* without.
assetInstructions(assets) ==
    [k \in 1..Len(assets) |-> IF assets[k] THEN (k - 1) + 2 ELSE 0]

\* The page before any click; credits is the userCredits prop, hasDeduct
\* tells whether the onDeductCredits prop is given.  clicks, deducted and
\* called count the handleGenerate calls, the deductions that completed
\* and the generateIdeaRender calls.
IgIdle ==
    [pc |-> "idle", credits |-> 0, hasSketch |-> FALSE, hasDeduct |-> FALSE,
     assets |-> <<>>, isLoading |-> FALSE, error |-> "none",
     resultImage |-> FALSE, parts |-> <<>>, cites |-> <<>>,
     clicks |-> 0, deducted |-> 0, called |-> 0]

\* catch and finally of handleGenerate.
IdeaFailed(g) ==
    [g EXCEPT !.pc = "idle", !.error = "render failed", !.isLoading = FALSE]

\* handleGenerate after `await generateIdeaRender(...)`: the data URL when
\* the response carries an image, the "No image data" error or the error of
\* callWithRetry otherwise.
AfterIdeaRetry(g, r) ==
    IF r.pc = "returned" /\ r.result.image
    THEN [g EXCEPT !.pc = "idle", !.resultImage = TRUE, !.isLoading = FALSE]
    ELSE IdeaFailed(g)

\* The call of generateIdeaRender up to its first await: the API key test,
\* the request parts and the instructions, and the entry of callWithRetry.
EnterIdeaRender(g) ==
    LET c == [g EXCEPT !.called = @ + 1]
    IN IF ~apiKey
       THEN [ig |-> IdeaFailed(c), rt |-> rt]
       ELSE [ig |-> [c EXCEPT !.pc = "rendering",
                              !.parts = requestParts(g.assets),
                              !.cites = assetInstructions(g.assets)],
             rt |-> RtEnter("idea", DefaultRetries, DefaultDelay)]

\* A handler that goes on to render whatever became of the deduction.
AfterDeductIgnored(g, ok) ==
    EnterIdeaRender(IF ok THEN [g EXCEPT !.credits = @ - Cost, !.deducted = @ + 1]
                    ELSE g)

\* handleGenerate after `await onDeductCredits(COST, ...)`: a resolved
\* deduction (the page's owner has taken COST credits) is followed by the
\* render call, a rejected one by catch and finally.
AfterDeduct(g, ok) ==
    IF ok
    THEN EnterIdeaRender([g EXCEPT !.credits = @ - Cost, !.deducted = @ + 1])
    ELSE [ig |-> IdeaFailed(g), rt |-> rt]

\* After a step of callWithRetry: the caller continues once it is done.
Continue(r) ==
    IF RtDone(r) /\ r.caller = "idea"
    THEN /\ rt' = r
         /\ gen' = gen
         /\ ig' = AfterIdeaRetry(ig, r)
    ELSE IF RtDone(r) /\ r.caller # "harness"
    THEN /\ rt' = AfterRetry(gen, r).rt
         /\ gen' = AfterRetry(gen, r).gen
         /\ ig' = ig
    ELSE /\ rt' = r
         /\ gen' = gen
         /\ ig' = ig

\* The record of how the selects of a getLearningContext call answered; it
\* is kept only for the call under observation (on).
LcOff == [on |-> FALSE, k1 |-> "none", k2 |-> "none"]

LcOn == [on |-> TRUE, k1 |-> "none", k2 |-> "none"]

Observed(l, query, kind) == IF l.on THEN [l EXCEPT ![query] = kind] ELSE l

\* What the remote call resolves with and rejects with, per caller.
ResponsesFor(caller) ==
    IF caller = "analysis" THEN {Resp(<<>>, FALSE), Resp(SceneText, FALSE)}
    ELSE IF caller = "render" THEN {Resp(<<>>, FALSE), Resp(<<>>, TRUE)}
    ELSE {Resp(<<>>, FALSE), Resp(SceneText, TRUE)}

ErrorsFor(caller) ==
    IF caller = "harness" THEN ErrSample ELSE {ErrOverloaded, ErrBadRequest}

\* fn()'s promise resolves.
FnResolve ==
    /\ rt.pc = "calling"
    /\ \E v \in ResponsesFor(rt.caller) : Continue(RtResolve(rt, v))
    /\ UNCHANGED <<cls, emp, tx, lc, client, apiKey, store, runs, ui, pair>>

\* fn()'s promise rejects.
FnReject ==
    /\ rt.pc = "calling"
    /\ \E e \in ErrorsFor(rt.caller) : Continue(RtReject(rt, e))
    /\ UNCHANGED <<cls, emp, tx, lc, client, apiKey, store, runs, ui, pair>>

\* The backoff timer fires.
SleepDone ==
    /\ rt.pc = "sleeping"
    /\ Continue(RtWake(rt))
    /\ UNCHANGED <<cls, emp, tx, lc, client, apiKey, store, runs, ui, pair>>

\* A click on the generate button of IdeaGenerator: handleGenerate up to its
\* first await.  The button is disabled while isLoading.
IgGenerate ==
    /\ ig.pc = "idle"
    /\ ig.clicks < MaxRuns
    /\ LET g == [ig EXCEPT !.clicks = @ + 1]
           l == [g EXCEPT !.isLoading = TRUE, !.error = "none"]
       IN IF g.credits < Cost
          THEN ig' = [g EXCEPT !.error = "credits"] /\ rt' = rt
          ELSE IF ~g.hasSketch
          THEN ig' = g /\ rt' = rt
          ELSE IF g.hasDeduct
          THEN ig' = [l EXCEPT !.pc = "deducting"] /\ rt' = rt
          ELSE ig' = EnterIdeaRender(l).ig /\ rt' = EnterIdeaRender(l).rt
    /\ UNCHANGED <<cls, emp, tx, lc, client, apiKey, store, gen, runs, ui, pair>>

\* The promise of onDeductCredits settles.
IgDeductDone ==
    /\ ig.pc = "deducting"
    /\ \E ok \in BOOLEAN : /\ ig' = AfterDeduct(ig, ok).ig
                           /\ rt' = AfterDeduct(ig, ok).rt
    /\ UNCHANGED <<cls, emp, tx, lc, client, apiKey, store, gen, runs, ui, pair>>

\* Invocations that keep the current delay in one place for all of them.
PairStepSharedDelay(p, k, r) ==
    [j \in 1..Len(p) |-> IF j = k THEN r ELSE [p[j] EXCEPT !.delay = r.delay]]

\* Two callWithRetry invocations side by side: each has its own i, delay
\* and lastError (parameters and locals of the call), so a step of
\* invocation k replaces the k-th record and nothing else.
PairStep(p, k, r) == [p EXCEPT ![k] = r]

\* fn()'s promise of one of the invocations resolves.
PairResolve ==
    /\ \E k \in 1..Len(pair) :
          /\ pair[k].pc = "calling"
          /\ \E v \in ResponsesFor(pair[k].caller) :
                pair' = PairStep(pair, k, RtResolve(pair[k], v))
    /\ UNCHANGED <<rt, cls, emp, tx, lc, client, apiKey, store, gen, runs, ui, ig>>

\* fn()'s promise of one of the invocations rejects.
PairReject ==
    /\ \E k \in 1..Len(pair) :
          /\ pair[k].pc = "calling"
          /\ \E e \in ErrorsFor(pair[k].caller) :
                pair' = PairStep(pair, k, RtReject(pair[k], e))
    /\ UNCHANGED <<rt, cls, emp, tx, lc, client, apiKey, store, gen, runs, ui, ig>>

\* The backoff timer of one of the invocations fires.
PairWake ==
    /\ \E k \in 1..Len(pair) :
          /\ pair[k].pc = "sleeping"
          /\ pair' = PairStep(pair, k, RtWake(pair[k]))
    /\ UNCHANGED <<rt, cls, emp, tx, lc, client, apiKey, store, gen, runs, ui, ig>>

\* No generateWeddingRender call is in flight.  The model follows one user
\* who acts on the page when it is at rest: a generation is started and the
\* rating form is used only while no other request is in flight, and the
\* page drops the rating form of the previous result when a new generation
\* starts.
Quiescent == gen.pc \in {"idle", "returned", "thrown"}

\* A call of generateWeddingRender, up to the first await.
GenStart ==
    /\ Quiescent
    /\ ui.pc = "idle"
    /\ runs < MaxRuns
    /\ runs' = runs + 1
    /\ \E o \in AppOptions :
          gen' = IF apiKey
                 THEN [GenIdle EXCEPT !.pc = "q1", !.options = o]
                 ELSE [GenIdle EXCEPT !.pc = "thrown", !.options = o,
                                      !.error = "API Key is missing"]
    /\ rt' = RtIdle
    /\ ui' = [UiIdle EXCEPT !.mounts = ui.mounts]
    /\ UNCHANGED <<cls, emp, tx, lc, client, apiKey, store, pair, ig>>

\* getLearningContext: the first select answers.
LearnPositive ==
    /\ gen.pc = "q1"
    /\ \E kind \in SelectKinds(client) :
          /\ lc' = Observed(lc, "k1", kind)
          /\ IF kind = "throw"
             THEN /\ gen' = AfterLearning(gen, NoLearning).gen
                  /\ rt' = AfterLearning(gen, NoLearning).rt
             ELSE /\ gen' = [gen EXCEPT
                               !.pc = "q2",
                               !.positive =
                                   QueryData(kind, PositiveQuery(Visible(client, store),
                                                                 gen.options.category,
                                                                 gen.options.style))]
                  /\ rt' = rt
    /\ UNCHANGED <<cls, emp, tx, client, apiKey, store, runs, ui, pair, ig>>

\* getLearningContext: the second select answers and the context is built.
LearnNegative ==
    /\ gen.pc = "q2"
    /\ \E kind \in SelectKinds(client) :
          LET negative == QueryData(kind, NegativeQuery(Visible(client, store),
                                                        gen.options.category))
              learning == IF kind = "throw" THEN NoLearning
                          ELSE [examples |-> ExamplesOf(gen.positive),
                                constraints |-> ConstraintsOf(negative)]
          IN /\ lc' = Observed(lc, "k2", kind)
             /\ gen' = AfterLearning(gen, learning).gen
             /\ rt' = AfterLearning(gen, learning).rt
    /\ UNCHANGED <<cls, emp, tx, client, apiKey, store, runs, ui, pair, ig>>

\* saveRenderHistory's insert answers and generateWeddingRender returns.
SaveDone ==
    /\ gen.pc = "saving"
    /\ \E kind \in SelectKinds(client) :
          LET saved == saveRenderHistory(client, kind, store, gen.options,
                                         gen.masterPrompt)
          IN /\ store' = saved.store
             /\ gen' = [gen EXCEPT !.pc = "returned", !.imageUrl = TRUE,
                                   !.renderId = saved.renderId,
                                   !.inserted = saved.inserted]
    /\ rt' = RtIdle
    /\ UNCHANGED <<cls, emp, tx, lc, client, apiKey, runs, ui, pair, ig>>

-----------------------------------------------------------------------------
(* RatingSystem: the component state and handleSubmit.                     *)

\* The identifiers a RatingSystem is mounted with: the one the last run
\* returned, or one that matches no row.
MountIds ==
    {UnknownId} \cup (IF gen.pc = "returned" /\ ~IsNull(gen.renderId)
                      THEN {gen.renderId[1]} ELSE {})

\* The page takes the outcome of the finished generation and renders
\* <RatingSystem renderId=... />: fresh component state, and the finished
\* call's frame is gone.
Mount ==
    /\ Quiescent
    /\ ui.pc = "idle"
    /\ ui.mounts < MaxMounts
    /\ \E id \in MountIds :
          ui' = [UiIdle EXCEPT !.mounted = TRUE, !.mounts = ui.mounts + 1,
                               !.renderId = id]
    /\ gen' = GenIdle
    /\ rt' = RtIdle
    /\ UNCHANGED <<cls, emp, tx, lc, client, apiKey, store, runs, pair, ig>>

\* A form that stays on screen after a successful submission.
FormShownAfterSuccess == Quiescent /\ ui.mounted

\* The form (stars, tags, submit button) is rendered unless isSuccess.
FormShown == Quiescent /\ ui.mounted /\ ~ui.isSuccess

\* onClick of a star: setRating(s).
SetRating ==
    /\ FormShown /\ ui.pc = "idle"
    /\ \E s \in Stars : s # ui.rating /\ ui' = [ui EXCEPT !.rating = s]
    /\ UNCHANGED <<rt, cls, emp, tx, lc, client, apiKey, store, gen, runs, pair, ig>>

\* toggleTag(tag)
ToggleTag ==
    /\ FormShown /\ ui.pc = "idle"
    /\ \E tag \in FeedbackTags :
          LET has == \E k \in 1..Len(ui.selectedTags) : ui.selectedTags[k] = tag
              keep(t) == t # tag
          IN ui' = [ui EXCEPT !.selectedTags =
                        IF has THEN SelectSeq(ui.selectedTags, keep)
                        ELSE Append(ui.selectedTags, tag)]
    /\ UNCHANGED <<rt, cls, emp, tx, lc, client, apiKey, store, gen, runs, pair, ig>>

\* A click on the submit button (enabled unless rating = 0 or isSubmitting):
\* handleSubmit up to `await submitFeedback(...)`.
ClickSubmit ==
    /\ FormShown
    /\ ui.rating # 0 /\ ~ui.isSubmitting
    /\ ui.pc = "idle"
    /\ ui' = [ui EXCEPT !.isSubmitting = TRUE, !.pc = "updating",
                        !.outcome = "none", !.updated = 0,
                        !.rewarded = FALSE, !.alerted = FALSE,
                        !.sent = [renderId |-> ui.renderId, rating |-> ui.rating,
                                  tags |-> ui.selectedTags]]
    /\ UNCHANGED <<rt, cls, emp, tx, lc, client, apiKey, store, gen, runs, pair, ig>>

\* A catch block that is not followed by the finally block.
HandleRejectedNoFinally(u) ==
    [u EXCEPT !.pc = "idle", !.outcome = "rejected", !.sent = UiIdle.sent,
              !.updated = 0, !.alerted = TRUE]

\* handleSubmit after submitFeedback threw: the catch block (alert) and the
\* finally block.
HandleRejected(u) ==
    [u EXCEPT !.pc = "idle", !.outcome = "rejected", !.sent = UiIdle.sent,
              !.updated = 0, !.alerted = TRUE, !.isSubmitting = FALSE]

\* handleSubmit after submitFeedback resolved: onReward(1), setIsSuccess,
\* the 2 s timer for onRated, and the finally block.
HandleResolved(u, updated) ==
    [u EXCEPT !.pc = "idle", !.outcome = "resolved", !.sent = UiIdle.sent,
              !.updated = updated, !.rewarded = TRUE, !.isSuccess = TRUE,
              !.timer = TRUE, !.isSubmitting = FALSE]

\* The update answers: submitFeedback resolves or throws, and handleSubmit
\* runs its try, catch and finally blocks.
UpdateDone ==
    /\ ui.pc = "updating"
    /\ \E kind \in UpdateKinds(client) :
          LET fb == submitFeedback(client, kind, store, ui.sent.renderId,
                                   ui.sent.rating, ui.sent.tags)
          IN /\ store' = fb.store
             /\ ui' = IF fb.rejected THEN HandleRejected(ui)
                      ELSE HandleResolved(ui, fb.updated)
    /\ UNCHANGED <<rt, cls, emp, tx, lc, client, apiKey, gen, runs, pair, ig>>

\* The 2 s timer of the success branch fires: onRated().
RatedTimer ==
    /\ ui.timer
    /\ ui' = [ui EXCEPT !.timer = FALSE, !.rated = TRUE]
    /\ UNCHANGED <<rt, cls, emp, tx, lc, client, apiKey, store, gen, runs, pair, ig>>

-----------------------------------------------------------------------------
(* The classifier and getEmpowermentPrompt applied to single inputs.       *)

ClsIdle == [e |-> NoErr, done |-> FALSE, transient |-> FALSE]

TxIdle == [sel |-> NoOptions, done |-> FALSE, out |-> <<>>]

EmpIdle == [sel |-> NoOptions, done |-> FALSE, out |-> <<>>]

\* One failed attempt with attempts left: is it retried?
Classify ==
    /\ ~cls.done
    /\ cls' = [cls EXCEPT !.done = TRUE,
                          !.transient =
                              (RtReject(RtEnter("harness", 2, 1), cls.e).pc = "sleeping")]
    /\ UNCHANGED <<rt, emp, tx, lc, client, apiKey, store, gen, runs, ui, pair, ig>>

Empower ==
    /\ ~emp.done
    /\ emp' = [emp EXCEPT !.done = TRUE, !.out = getEmpowermentPrompt(emp.sel)]
    /\ UNCHANGED <<rt, cls, tx, lc, client, apiKey, store, gen, runs, ui, pair, ig>>

\* The textile phrase of one RenderOptions value is composed.
Textile ==
    /\ ~tx.done
    /\ tx' = [tx EXCEPT !.done = TRUE, !.out = TextileDetails(tx.sel)]
    /\ UNCHANGED <<rt, cls, emp, lc, client, apiKey, store, gen, runs, ui, pair, ig>>

-----------------------------------------------------------------------------
(* Specifications.                                                         *)

InitialDelays == {1, 100, DefaultDelay}

\* One callWithRetry invocation on its own.
InitRetry ==
    /\ rt \in { RtEnter("harness", n, d) : n \in 0..MaxAttempts, d \in InitialDelays }
    /\ cls = ClsIdle /\ emp = EmpIdle /\ tx = TxIdle /\ lc = LcOff
    /\ pair = <<>> /\ ig = IgIdle
    /\ client = "real" /\ apiKey = TRUE /\ store = <<>>
    /\ gen = GenIdle /\ runs = 0 /\ ui = UiIdle

NextRetry == FnResolve \/ FnReject \/ SleepDone

SpecRetry == InitRetry /\ [][NextRetry]_vars

\* The same invocation when every fn() promise settles and every backoff
\* timer fires: a pending promise or timer is the only thing the invocation
\* waits for, and its continuation runs once it is settled.
SpecRetryFair ==
    /\ InitRetry /\ [][NextRetry]_vars
    /\ WF_vars(FnResolve \/ FnReject)
    /\ WF_vars(SleepDone)

\* The classification of one error value.
InitClassify ==
    /\ cls \in { [ClsIdle EXCEPT !.e = e] : e \in ErrorValues }
    /\ rt = RtIdle /\ emp = EmpIdle /\ tx = TxIdle /\ lc = LcOff
    /\ pair = <<>> /\ ig = IgIdle
    /\ client = "real" /\ apiKey = TRUE /\ store = <<>>
    /\ gen = GenIdle /\ runs = 0 /\ ui = UiIdle

NextClassify == Classify

SpecClassify == InitClassify /\ [][NextClassify]_vars

\* getEmpowermentPrompt on one RenderOptions value.
InitEmpower ==
    /\ emp \in { [EmpIdle EXCEPT !.sel = sel] : sel \in Selections }
    /\ rt = RtIdle /\ cls = ClsIdle /\ tx = TxIdle /\ lc = LcOff
    /\ pair = <<>> /\ ig = IgIdle
    /\ client = "real" /\ apiKey = TRUE /\ store = <<>>
    /\ gen = GenIdle /\ runs = 0 /\ ui = UiIdle

NextEmpower == Empower

SpecEmpower == InitEmpower /\ [][NextEmpower]_vars

\* The textile phrase of one RenderOptions value.
InitTextile ==
    /\ tx \in { [TxIdle EXCEPT !.sel = sel] : sel \in Selections }
    /\ rt = RtIdle /\ cls = ClsIdle /\ emp = EmpIdle /\ lc = LcOff
    /\ pair = <<>> /\ ig = IgIdle
    /\ client = "real" /\ apiKey = TRUE /\ store = <<>>
    /\ gen = GenIdle /\ runs = 0 /\ ui = UiIdle

NextTextile == Textile

SpecTextile == InitTextile /\ [][NextTextile]_vars

\* Feedback tags as they are stored: the first seven of FEEDBACK_TAGS.
TagNames ==
    <<"Sai bo cuc goc", "Hoa nhin gia", "Vai nhua/cung", "Anh sang qua toi",
      "Sai mau sac", "Chi tiet bi meo", "Bo cuc hoan hao">>

\* The row saveRenderHistory inserted k-th, as feedback has left it.
StoredRow(k, shape) ==
    [id |-> RowId(k), category |-> shape.category, style |-> shape.style,
     master_prompt |-> <<"MASTER PROMPT ">> \o Digits(k),
     rating |-> shape.rating, feedback_tags |-> shape.tags]

RowShape(category, style, rating, tags) ==
    [category |-> category, style |-> style, rating |-> Some(rating),
     tags |-> Some(tags)]

\* What a rated row can look like: five stars, four stars, another style,
\* another category, and two low ratings with tags.
RowShapes ==
    { RowShape("stage", "classic", 5, <<>>),
      RowShape("stage", "classic", 4, <<TagNames[7]>>),
      RowShape("stage", "rustic", 5, <<>>),
      RowShape(None, None, 5, <<>>),
      RowShape("stage", "classic", 2, <<TagNames[1], TagNames[2]>>),
      RowShape("stage", "rustic", 1, <<TagNames[2], TagNames[3]>>) }

\* Every table of at most MaxRows rated rows.
ShortStores ==
    UNION { { [k \in 1..n |-> StoredRow(k, f[k])] : f \in [1..n -> RowShapes] } :
            n \in 0..MaxRows }

\* The tags of the k-th row of a table of low-rated rows.  Pattern 1: three
\* tags in turn on the first ten rows and a fourth tag after them; pattern
\* 2: seven tags in turn, each with one of two tags seen before.
LongTags(k, pattern) ==
    IF pattern = 1
    THEN IF k <= 10 THEN <<TagNames[((k - 1) % 3) + 1]>> ELSE <<TagNames[4]>>
    ELSE <<TagNames[((k - 1) % 7) + 1], TagNames[((k - 1) % 2) + 1]>>

\* Tables of up to MaxLong low-rated rows of one category.
LongStores ==
    { [k \in 1..n |->
          StoredRow(k, RowShape("stage", IF k % 2 = 1 THEN "classic" ELSE "rustic",
                                1 + (k % 2), LongTags(k, pattern)))] :
      n \in 0..MaxLong, pattern \in 1..2 }

\* A row as saveRenderHistory leaves it: no rating and no tags yet.
Unrated(category, style) ==
    [category |-> category, style |-> style, rating |-> Null, tags |-> Null]

\* Tables of at most MaxRows rows of one category and style in which rows
\* never rated and rows rated three stars stand among five-star and
\* two-star rows; the three-star row shares one tag with the two-star row.
MidStores ==
    LET shapes == { Unrated("stage", "classic"),
                    RowShape("stage", "classic", 3, <<TagNames[1], TagNames[6]>>),
                    RowShape("stage", "classic", 5, <<>>),
                    RowShape("stage", "classic", 2, <<TagNames[1]>>) }
    IN UNION { { [k \in 1..n |-> StoredRow(k, f[k])] : f \in [1..n -> shapes] } :
               n \in 1..MaxRows }

\* getLearningContext inside a generateWeddingRender call that has just
\* started, against a table earlier runs and feedback have filled.
InitLearn ==
    /\ store \in ShortStores \cup LongStores \cup MidStores
    /\ gen \in { [GenIdle EXCEPT !.pc = "q1", !.options = o] : o \in AppOptions }
    /\ lc = LcOn
    /\ pair = <<>> /\ ig = IgIdle
    /\ rt = RtIdle /\ cls = ClsIdle /\ emp = EmpIdle /\ tx = TxIdle
    /\ client = "real" /\ apiKey = TRUE /\ runs = 1 /\ ui = UiIdle

NextLearn == LearnPositive \/ LearnNegative

SpecLearn == InitLearn /\ [][NextLearn]_vars

\* Two concurrent callWithRetry invocations, as two generateWeddingRender
\* runs started side by side make them, each with its own retries and
\* initial delay.
InitPair ==
    /\ pair \in { <<RtEnter("analysis", n1, d1), RtEnter("render", n2, d2)>> :
                   n1 \in 1..MaxAttempts, n2 \in 1..MaxAttempts,
                   d1 \in {100, DefaultDelay}, d2 \in {1, DefaultDelay} }
    /\ ig = IgIdle
    /\ rt = RtIdle /\ cls = ClsIdle /\ emp = EmpIdle /\ tx = TxIdle /\ lc = LcOff
    /\ client = "real" /\ apiKey = TRUE /\ store = <<>>
    /\ gen = GenIdle /\ runs = 0 /\ ui = UiIdle

NextPair == PairResolve \/ PairReject \/ PairWake

SpecPair == InitPair /\ [][NextPair]_vars

\* The IdeaGenerator page with a sketch or none, a list of at most MaxAssets
\* assets with or without a picture, credits around COST, and the
\* onDeductCredits prop given or not.
InitIdea ==
    /\ ig \in { [IgIdle EXCEPT !.credits = c, !.hasSketch = s, !.hasDeduct = d,
                               !.assets = a] :
                 c \in {Cost - 1, Cost, 2 * Cost + 1}, s \in BOOLEAN, d \in BOOLEAN,
                 a \in UNION { [1..n -> BOOLEAN] : n \in 0..MaxAssets } }
    /\ apiKey \in BOOLEAN
    /\ pair = <<>>
    /\ rt = RtIdle /\ cls = ClsIdle /\ emp = EmpIdle /\ tx = TxIdle /\ lc = LcOff
    /\ client = "real" /\ store = <<>>
    /\ gen = GenIdle /\ runs = 0 /\ ui = UiIdle

NextIdea == IgGenerate \/ IgDeductDone \/ FnResolve \/ FnReject \/ SleepDone

SpecIdea == InitIdea /\ [][NextIdea]_vars

\* The application: generation runs and feedback on their results.
Init ==
    /\ client \in {"real", "mock"}
    /\ apiKey \in BOOLEAN
    /\ rt = RtIdle /\ cls = ClsIdle /\ emp = EmpIdle /\ tx = TxIdle /\ lc = LcOff
    /\ pair = <<>> /\ ig = IgIdle
    /\ store = <<>> /\ gen = GenIdle /\ runs = 0 /\ ui = UiIdle

Next ==
    \/ GenStart \/ LearnPositive \/ LearnNegative
    \/ FnResolve \/ FnReject \/ SleepDone \/ SaveDone
    \/ Mount \/ SetRating \/ ToggleTag \/ ClickSubmit \/ UpdateDone \/ RatedTimer

Spec == Init /\ [][Next]_vars

-----------------------------------------------------------------------------
(* Properties of callWithRetry, checked under SpecRetry.                   *)

\* The errors of ErrSample that signal overload / unavailability, and the
\* others.
Transients == {ErrOverloaded, ErrUnavailable}

Permanents == {ErrBadRequest, ErrInvalid}

Calls == CountOf(rt.trace, "call")

Fails == Only(rt.trace, "fail")

Sleeps == Only(rt.trace, "sleep")

\* Number of fn() calls among the first j entries of the trace.
CallsUpTo(j) == CountOf(SubSeq(rt.trace, 1, j), "call")

\* C1: when fn fails N-1 times with transient errors and then succeeds
\* (N <= maxAttempts), fn was invoked exactly N times, there were exactly N-1
\* sleeps, the k-th sleep lasted initialDelay * 2^(k-1), each sleep lies
\* between the k-th failure and the (k+1)-th invocation, and the value of the
\* N-th invocation is returned.  A transient failure with attempts left is
\* always followed by a sleep, so such a run does end with the N-th call.
C1_BackoffSchedule ==
    rt.caller = "harness" =>
        /\ \A j \in 1..Len(rt.trace) :
              /\ (rt.trace[j].t = "fail" /\ rt.trace[j].e \in Transients
                  /\ CallsUpTo(j) < rt.retries)
                 => (j < Len(rt.trace) /\ rt.trace[j + 1].t = "sleep")
              /\ rt.trace[j].t = "sleep"
                 => /\ rt.trace[j - 1].t = "fail"
                    /\ j < Len(rt.trace) => rt.trace[j + 1].t = "call"
        /\ rt.pc = "returned" =>
              /\ Calls <= rt.retries
              /\ Len(Fails) = Calls - 1
              /\ Len(Sleeps) = Calls - 1
              /\ \A k \in 1..Len(Sleeps) :
                    Sleeps[k].d = rt.initialDelay * Pow2(k - 1)
              /\ rt.trace[Len(rt.trace)].t = "ok"
              /\ rt.result = rt.trace[Len(rt.trace)].v

\* A run that succeeded on the third call after two transient failures.
C1_Witness ==
    /\ rt.caller = "harness" /\ rt.pc = "returned"
    /\ rt.initialDelay = DefaultDelay
    /\ Calls = 3 /\ Len(Sleeps) = 2
    /\ \A k \in 1..Len(Fails) : Fails[k].e \in Transients

\* C2: when every invocation of fn fails with a transient error
\* (maxAttempts >= 1), fn is invoked exactly maxAttempts times, exactly
\* maxAttempts-1 sleeps occur, no sleep follows the last failure, and the
\* error thrown is the one raised by the last invocation.
C2_ExhaustedThrowsLast ==
    (/\ rt.caller = "harness" /\ rt.pc = "thrown" /\ rt.retries >= 1
     /\ \A k \in 1..Len(Fails) : Fails[k].e \in Transients)
    => /\ Calls = rt.retries
       /\ Len(Fails) = rt.retries
       /\ Len(Sleeps) = rt.retries - 1
       /\ rt.trace[Len(rt.trace)].t = "fail"
       /\ rt.thrown = rt.trace[Len(rt.trace)].e

\* Three transient failures out of three attempts, the last error differing
\* from the first.
C2_Witness ==
    /\ rt.caller = "harness" /\ rt.pc = "thrown" /\ rt.retries = 3
    /\ Len(Fails) = 3
    /\ \A k \in 1..Len(Fails) : Fails[k].e \in Transients
    /\ Fails[1].e # Fails[3].e

\* C3: a permanent error ends the invocation at that attempt with that very
\* error: nothing follows the failure in the trace; on the first attempt
\* that is exactly one invocation and no sleep.
C3_PermanentThrowsAtOnce ==
    rt.caller = "harness" =>
        \A j \in 1..Len(rt.trace) :
            (rt.trace[j].t = "fail" /\ rt.trace[j].e \in Permanents)
            => /\ j = Len(rt.trace)
               /\ rt.pc = "thrown"
               /\ rt.thrown = rt.trace[j].e
               /\ (j = 2 => Calls = 1 /\ Len(Sleeps) = 0)

\* A permanent error on the first of three attempts.
C3_Witness ==
    /\ rt.caller = "harness" /\ rt.pc = "thrown" /\ rt.retries = 3
    /\ Len(rt.trace) = 2 /\ rt.trace[2].t = "fail"
    /\ rt.trace[2].e = ErrBadRequest

\* C4: when the first invocation succeeds (maxAttempts >= 1) fn is invoked
\* exactly once, no sleep occurs and that result is returned; in every run
\* nothing follows a successful invocation.
C4_SuccessEndsInvocation ==
    rt.caller = "harness" =>
        \A j \in 1..Len(rt.trace) :
            rt.trace[j].t = "ok"
            => /\ j = Len(rt.trace)
               /\ rt.pc = "returned"
               /\ rt.result = rt.trace[j].v
               /\ (j = 2 => Calls = 1 /\ Len(Sleeps) = 0)

\* A success on the first of three attempts.
C4_Witness ==
    /\ rt.caller = "harness" /\ rt.pc = "returned" /\ rt.retries = 3
    /\ Len(rt.trace) = 2 /\ rt.trace[2].t = "ok"

-----------------------------------------------------------------------------
(* The classification, checked under SpecClassify.                         *)

\* The classification as the specification words it: the numeric code 503
\* at the top level (status, code) or inside the wrapped error object, the
\* wrapped UNAVAILABLE status, or a marker in the message text.
SpecTransient(e) ==
    \/ e.status = JNum(503)
    \/ e.code = JNum(503)
    \/ (e.hasError /\ (e.ecode = JNum(503) \/ e.estatus = JNum(503)
                       \/ e.estatus = JStr(TxtUnavailable)))
    \/ (e.message.k = "str" /\ (Includes(e.message.s, TxtOverloaded)
                                \/ Includes(e.message.s, Txt503)))

\* C5: an error is retried if and only if it carries the numeric code 503
\* (top level or wrapped) or its message text carries an overload marker;
\* every other error, such as a message-less error whose other fields merely
\* contain the digits 503, is permanent.
C5_ClassifiedAsSpecified ==
    cls.done => (cls.transient <=> SpecTransient(cls.e))

-----------------------------------------------------------------------------
(* getEmpowermentPrompt, checked under SpecEmpower.                        *)

\* C6 as stated: the number of directives equals the number of the seven
\* choice fields that are "none" (seven when all are).
C6_OneDirectivePerNoneField ==
    emp.done => DirectiveCount(emp.out) = NoneCount(emp.sel)

\* Number of "none" among category, style, colorPalette, surfaceMaterial and
\* textileMaterial.
NoneCountMain(sel) ==
    Cardinality({f \in {"category", "style", "colorPalette", "surfaceMaterial",
                        "textileMaterial"} : sel[f] = None})

\* Number of "none" among the two textile colours.
NoneCountColors(sel) ==
    Cardinality({f \in {"textileColor1", "textileColor2"} : sel[f] = None})

\* C6 as amended: one directive per "none" among the five main fields, plus
\* one per "none" textile colour only when a textile material is chosen; with
\* all seven fields "none" the block holds five directives.
C6_DirectivesPerField ==
    emp.done =>
        /\ DirectiveCount(emp.out) =
              NoneCountMain(emp.sel)
              + (IF emp.sel.textileMaterial # None
                 THEN NoneCountColors(emp.sel) ELSE 0)
        /\ NoneCount(emp.sel) = 7 => DirectiveCount(emp.out) = 5

\* All seven fields "none": a block of five directives.
C6_Witness ==
    /\ emp.done /\ NoneCount(emp.sel) = 7
    /\ DirectiveCount(emp.out) = 5 /\ emp.out # <<>>

-----------------------------------------------------------------------------
(* Properties of the application, checked under Spec.                      *)

\* The learning block of the running generation.
LearningBlock == LearningPromptInjection(gen.options, gen.learning)

\* The render call has been made in the running generation.
RenderReached == ~IsNull(gen.renderText)

\* C7: with the offline mock client saveRenderHistory returns null, so
\* generateWeddingRender returns renderId = null.
C7_OfflineSaveReturnsNull ==
    (client = "mock" /\ gen.pc = "returned") => IsNull(gen.renderId)

\* C8: submitFeedback on a renderId that matches no record rejects: it never
\* resolves without having updated a record, so the caller never shows the
\* success state or grants the reward for it.
C8_UnknownIdRejects ==
    (ui.outcome = "resolved" \/ ui.isSuccess \/ ui.rewarded) => ui.updated > 0

\* C9 as stated: on every path that reaches the render call the master
\* prompt sent contains the empowerment block and the learning block.
C9_EveryPathCarriesBothBlocks ==
    RenderReached =>
        /\ Includes(gen.renderText[1], gen.empowerment)
        /\ Includes(gen.renderText[1], LearningBlock)

\* C9 as amended: with a hidden scene analysis the master prompt contains
\* both blocks.  Without one, both blocks are in the analysis prompt; the
\* master prompt contains the empowerment block when it is built from the
\* base description (analysis failed or returned no text) and is otherwise
\* the render prompt of the scene description alone.
C9_BlocksPerPath ==
    RenderReached =>
        /\ gen.branch \in {"hidden", "analysed", "fallback"}
        /\ gen.empowerment = getEmpowermentPrompt(gen.options)
        /\ gen.branch = "hidden" =>
              /\ Includes(gen.renderText[1], gen.empowerment)
              /\ Includes(gen.renderText[1], LearningBlock)
        /\ gen.branch # "hidden" =>
              /\ Includes(gen.analysisPrompt, gen.empowerment)
              /\ Includes(gen.analysisPrompt, LearningBlock)
        /\ (gen.branch = "fallback"
            \/ (gen.branch = "analysed" /\ gen.sceneText = <<>>)) =>
              /\ Includes(gen.renderText[1], gen.empowerment)
              /\ gen.renderText[1] = RenderPromptOf(gen.options, BaseDescription(gen.options))
        /\ (gen.branch = "analysed" /\ gen.sceneText # <<>>) =>
              gen.renderText[1] = RenderPromptOf(gen.options, gen.sceneText)

\* A render call on the hidden-analysis path whose prompt carries a
\* non-empty empowerment block and retrieved examples.
C9_Witness ==
    /\ RenderReached /\ gen.pc = "render" /\ gen.branch = "hidden"
    /\ gen.empowerment # <<>>
    /\ gen.learning.examples # <<>>

\* C10: the master_prompt of the record a run saves is exactly the text part
\* of that run's render call, and its category and style are the options'.
C10_SavedPromptIsSentPrompt ==
    (gen.pc = "returned" /\ ~IsNull(gen.inserted)) =>
        \E k \in 1..Len(store) :
            /\ store[k].id = gen.inserted[1]
            /\ ~IsNull(gen.renderText)
            /\ store[k].master_prompt = gen.renderText[1]
            /\ store[k].category = gen.options.category
            /\ store[k].style = gen.options.style

\* A run with chosen category and style that saved its record.
C10_Witness ==
    /\ gen.pc = "returned" /\ ~IsNull(gen.inserted)
    /\ gen.options.category = "stage"
    /\ Len(store) = 2

-----------------------------------------------------------------------------
(* getLearningContext inside a run, checked under SpecLearn.               *)

\* getLearningContext has returned to generateWeddingRender, which went on
\* to its next await.
LearnReturned == gen.pc \in {"analysis", "render"}

\* A select failed: it threw, or answered with an error and no data.
Failed(kind) == kind \in {"error", "throw"}

\* C11: getLearningContext never propagates a failure: a select that throws
\* or answers with an error contributes the empty string, and
\* generateWeddingRender goes on to build its prompts and to call the model.
C11_LearningFailureContained ==
    /\ gen.pc \in {"q1", "q2", "analysis", "render"}
    /\ gen.error = "none"
    /\ LearnReturned =>
          /\ Failed(lc.k1) => gen.learning.examples = <<>>
          /\ Failed(lc.k2) => gen.learning.constraints = <<>>
          /\ gen.empowerment = getEmpowermentPrompt(gen.options)
          /\ rt.pc = "calling"
          /\ gen.pc = "analysis" =>
                gen.analysisPrompt = AnalysisPrompt(gen.options, gen.learning)
          /\ gen.pc = "render" =>
                gen.renderText = Some(HiddenMasterPrompt(gen.options, gen.learning))

\* The second select answered with an error, the first one's examples are
\* kept, and the render call is under way.
C11_Witness ==
    /\ LearnReturned /\ lc.k1 = "data" /\ lc.k2 = "error"
    /\ gen.learning.examples # <<>> /\ gen.learning.constraints = <<>>
    /\ gen.pc = "render" /\ rt.pc = "calling"

\* The rows that match the positive select of the run's options, and the
\* rows that match its negative select, by position in the table.
PositiveRows ==
    {k \in 1..Len(store) : /\ store[k].category = gen.options.category
                           /\ store[k].style = gen.options.style
                           /\ store[k].rating = Some(5)}

NegativeRows ==
    {k \in 1..Len(store) : /\ store[k].category = gen.options.category
                           /\ store[k].rating \in {Some(1), Some(2)}
                           /\ store[k].feedback_tags # Null}

\* C14: examples is empty when no row matches (category, style, rating 5),
\* and constraints is empty when no row of the category has a rating below
\* 3 with tags.
C14_NoMatchNoText ==
    LearnReturned =>
        /\ PositiveRows = {} => gen.learning.examples = <<>>
        /\ NegativeRows = {} => gen.learning.constraints = <<>>

\* Both selects answered with data on a table that holds a five-star row of
\* the category in another style and a four-star row of the category and
\* style, and both texts are empty.
C14_Witness ==
    /\ LearnReturned /\ lc.k1 = "data" /\ lc.k2 = "data"
    /\ PositiveRows = {} /\ NegativeRows = {}
    /\ \E k \in 1..Len(store) : /\ store[k].category = gen.options.category
                                /\ store[k].style # gen.options.style
                                /\ store[k].rating = Some(5)
    /\ \E k \in 1..Len(store) : /\ store[k].category = gen.options.category
                                /\ store[k].style = gen.options.style
                                /\ store[k].rating = Some(4)
    /\ gen.learning = NoLearning

\* The j-th largest and the j-th smallest member of a set of numbers.
NthLargest(S, j) == CHOOSE k \in S : Cardinality({m \in S : m > k}) = j - 1

NthSmallest(S, j) == CHOOSE k \in S : Cardinality({m \in S : m < k}) = j - 1

AtMost(n, limit) == IF n < limit THEN n ELSE limit

\* The master prompts of the at most 3 newest matching rows, newest first,
\* with the separator between them.
NewestExamples ==
    JoinWith([j \in 1..AtMost(Cardinality(PositiveRows), 3) |->
                 store[NthLargest(PositiveRows, j)].master_prompt],
             <<ExampleSep>>)

\* C15: when the selects answer, examples is the master prompts of the at
\* most 3 most recently created rows with the run's category and style and
\* rating 5, most recent first; no other row contributes.
C15_ExamplesAreNewestThree ==
    (LearnReturned /\ lc.k1 = "data" /\ lc.k2 # "throw") =>
        gen.learning.examples = NewestExamples

\* Four matching rows: the oldest is left out.
C15_Witness ==
    /\ LearnReturned /\ lc.k1 = "data" /\ lc.k2 = "data"
    /\ Cardinality(PositiveRows) = 4
    /\ Includes(gen.learning.examples,
                store[4].master_prompt \o <<ExampleSep>> \o store[3].master_prompt
                \o <<ExampleSep>> \o store[2].master_prompt)
    /\ ~Includes(gen.learning.examples, store[1].master_prompt)

\* The tags of a constraints text: its pieces between the ", " separators.
TagsIn(text) == [j \in 1..((Len(text) + 1) \div 2) |-> text[2 * j - 1]]

\* The tag lists of the rows Sel, flattened in table order.
FlatTags(Sel) ==
    Concat([j \in 1..Cardinality(Sel) |->
               store[NthSmallest(Sel, j)].feedback_tags[1]])

\* The positions of a list at which a value occurs for the first time.
FirstSeen(flat) ==
    {i \in 1..Len(flat) : \A j \in 1..(i - 1) : flat[j] # flat[i]}

\* The first five distinct values of a list.
FirstFiveDistinct(flat) ==
    [j \in 1..AtMost(Cardinality(FirstSeen(flat)), 5) |->
        flat[NthSmallest(FirstSeen(flat), j)]]

\* C16: when the selects answer, constraints holds at most 5 pairwise
\* distinct tags: the first 5 distinct tags of the flattened tag lists of at
\* most 10 rows of the category (any style) with a rating below 3 and tags.
C16_ConstraintsAreFirstFiveTags ==
    (LearnReturned /\ lc.k2 = "data") =>
        LET tags == TagsIn(gen.learning.constraints)
        IN /\ Len(tags) <= 5
           /\ \A i, j \in 1..Len(tags) : i # j => tags[i] # tags[j]
           /\ \E Sel \in SUBSET NegativeRows :
                 /\ Cardinality(Sel) = AtMost(Cardinality(NegativeRows), 10)
                 /\ tags = FirstFiveDistinct(FlatTags(Sel))
           /\ gen.learning.constraints =
                 JoinWith([j \in 1..Len(tags) |-> <<tags[j]>>], <<", ">>)

\* Eleven low-rated rows of two styles carrying seven tags with repeats:
\* five tags are returned.
C16_Witness ==
    /\ LearnReturned /\ lc.k2 = "data"
    /\ Cardinality(NegativeRows) > 10
    /\ \E k \in NegativeRows : store[k].style # gen.options.style
    /\ Len(TagsIn(gen.learning.constraints)) = 5
    /\ Cardinality({store[k].feedback_tags[1][i] :
                        k \in NegativeRows, i \in 1..2}) > 5

-----------------------------------------------------------------------------
(* The textile phrase, checked under SpecTextile.                          *)

\* The generic phrase for textiles.
GenericTextiles == <<"appropriate luxury fabrics and draping based on context">>

\* C17: with a textile material M, a primary colour C and no secondary
\* colour the textile phrase is exactly "M in C".
C17_MaterialInPrimaryColor ==
    (/\ tx.done /\ tx.sel.textileMaterial # None
     /\ tx.sel.textileColor1 # None /\ tx.sel.textileColor2 = None) =>
        tx.out = <<tx.sel.textileMaterial, " in ", tx.sel.textileColor1>>

\* silk / ivory / none gives "silk in ivory".
C17_Witness ==
    /\ tx.done /\ tx.sel.textileMaterial = "silk"
    /\ tx.sel.textileColor1 = "ivory" /\ tx.sel.textileColor2 = None
    /\ tx.out = <<"silk", " in ", "ivory">>

\* C18 as stated: with neither textile colour set the textile phrase is the
\* generic phrase, whatever the textile material.
C18_NoColorGenericPhrase ==
    (/\ tx.done
     /\ tx.sel.textileColor1 = None /\ tx.sel.textileColor2 = None) =>
        tx.out = GenericTextiles

\* C18 as amended: the textile phrase is the generic phrase exactly when no
\* textile material is chosen, whatever the colours; with a material and
\* neither colour set it is the material alone.
C18_GenericPhraseWithoutMaterial ==
    tx.done =>
        /\ tx.sel.textileMaterial = None <=> tx.out = GenericTextiles
        /\ (/\ tx.sel.textileMaterial # None
            /\ tx.sel.textileColor1 = None /\ tx.sel.textileColor2 = None) =>
               tx.out = <<tx.sel.textileMaterial>>

\* A material without colours: the phrase is the material.
C18_Witness ==
    /\ tx.done /\ tx.sel.textileMaterial = "silk"
    /\ tx.sel.textileColor1 = None /\ tx.sel.textileColor2 = None
    /\ tx.out = <<"silk">>

-----------------------------------------------------------------------------
(* The empty empowerment block, checked under SpecEmpower.                 *)

\* C19: getEmpowermentPrompt returns the empty string if and only if none
\* of the seven choice fields is "none".
C19_EmptyIffNothingLeftOpen ==
    emp.done => (emp.out = <<>> <=> NoneCount(emp.sel) = 0)

\* Every field chosen: the block is empty.
C19_Witness ==
    /\ emp.done /\ NoneCount(emp.sel) = 0 /\ emp.out = <<>>

-----------------------------------------------------------------------------
(* Degraded persistence, checked under Spec.                               *)

\* C12: when the render call returned an image and the insert fails (the
\* table is left as it was), generateWeddingRender returns the image with
\* renderId = null and does not throw.
C12_InsertFailureContained ==
    [][ gen.pc = "saving" =>
          /\ gen'.pc = "returned" /\ gen'.imageUrl /\ gen'.error = "none"
          /\ (client = "real" /\ store' = store) => IsNull(gen'.renderId) ]_vars

\* A run on the real client that returned its image without an identifier.
C12_Witness ==
    /\ client = "real" /\ gen.pc = "returned" /\ gen.imageUrl
    /\ IsNull(gen.renderId) /\ IsNull(gen.inserted)

\* C13: with the mock client getLearningContext returns empty examples and
\* constraints without raising, and a run whose render call returns an
\* image returns it.
C13_OfflineRunsSucceed ==
    /\ [](client = "mock" =>
            /\ gen.learning = NoLearning
            /\ (rt.caller = "render" /\ rt.pc = "returned" /\ rt.result.image) =>
                  gen.pc = "saving"
            /\ gen.pc = "returned" => gen.imageUrl /\ gen.error = "none"
            /\ gen.pc = "thrown" =>
                  gen.error \in {"API Key is missing", "no image", "render error"})
    /\ [][ client = "mock" =>
              /\ gen.pc \in {"q1", "q2"} => gen'.pc \in {"q2", "analysis", "render"}
              /\ gen.pc = "saving" => gen'.pc = "returned" /\ gen'.imageUrl ]_vars

\* An offline run that returned its image.
C13_Witness ==
    /\ client = "mock" /\ gen.pc = "returned" /\ gen.imageUrl
    /\ gen.learning = NoLearning /\ store = <<>>

\* C20: in every reachable state every row of render_history has a rating
\* that is unset or one of 1..5, and a row with an unset rating has no
\* feedback tags.
C20_RatingsInRange ==
    \A k \in 1..Len(store) :
        /\ store[k].rating = Null \/ \E n \in 1..5 : store[k].rating = Some(n)
        /\ store[k].rating = Null => store[k].feedback_tags = Null

\* A rated row with a tag next to a row nobody rated.
C20_Witness ==
    /\ ui.outcome = "resolved" /\ ui.updated = 1
    /\ \E k \in 1..Len(store) :
          /\ store[k].rating = Some(1)
          /\ store[k].feedback_tags = Some(<<"Sai bo cuc goc">>)
    /\ \E k \in 1..Len(store) :
          store[k].rating = Null /\ store[k].feedback_tags = Null

-----------------------------------------------------------------------------
(* The life of a row of render_history, checked under Spec.                *)

\* C21: a row's rating and tags are written at most once: whenever a
\* submitFeedback update is applied to a row, the row was unrated before,
\* whatever the clicks on the form were; and no row is ever deleted.
C21_RatedAtMostOnce ==
    [][ /\ (ui.pc = "updating" /\ ui'.outcome = "resolved" /\ ui'.updated > 0) =>
             \A k \in 1..Len(store) :
                 store[k].id = ui.sent.renderId =>
                     /\ store[k].rating = Null
                     /\ store'[k].rating = Some(ui.sent.rating)
        /\ \A k \in 1..Len(store) :
              store[k].rating # Null => store'[k] = store[k]
        /\ Len(store') >= Len(store)
        /\ \A k \in 1..Len(store) : store'[k].id = store[k].id ]_vars

\* The update was applied to the run's row; the form has given way to the
\* success message.
C21_Witness ==
    /\ ui.outcome = "resolved" /\ ui.updated = 1 /\ ui.isSuccess
    /\ ~FormShown
    /\ \E k \in 1..Len(store) :
          store[k].id = ui.renderId /\ store[k].rating # Null

\* C22: a row is created only when a generation completes: an insert adds
\* one row with rating null, in the step in which the run returns after its
\* render call returned an image; a run that throws has inserted nothing.
C22_RowOnlyOnSuccess ==
    /\ [][ store' # store =>
              \/ /\ Len(store') = Len(store) + 1
                 /\ SubSeq(store', 1, Len(store)) = store
                 /\ store'[Len(store')].rating = Null
                 /\ gen.pc = "saving" /\ gen'.pc = "returned"
                 /\ rt.caller = "render" /\ rt.pc = "returned" /\ rt.result.image
                 /\ gen'.inserted = Some(store'[Len(store')].id)
              \/ /\ Len(store') = Len(store)
                 /\ ui.pc = "updating" ]_vars
    /\ [](gen.pc # "returned" => IsNull(gen.inserted))

\* A run that returned with the row it inserted.
C22_Witness ==
    /\ gen.pc = "returned" /\ ~IsNull(gen.inserted)
    /\ store # <<>> /\ store[Len(store)].id = gen.inserted[1]
    /\ store[Len(store)].rating = Null

-----------------------------------------------------------------------------
(* Failures inside a run and inside handleSubmit, checked under Spec.      *)

\* C23: when the render call returns a response without image data the run
\* throws in the same step, and that response is the last thing its
\* callWithRetry did: no further call of the render operation, no sleep.
C23_NoImageThrowsAtOnce ==
    /\ [][ (/\ gen.pc = "render" /\ rt.pc = "calling"
             /\ rt'.pc = "returned" /\ ~rt'.result.image) =>
               gen'.pc = "thrown" /\ gen'.error = "no image" ]_vars
    /\ [](gen.error = "no image" =>
             /\ gen.pc = "thrown" /\ rt.pc = "returned" /\ rt.caller = "render"
             /\ CountOf(rt.trace, "ok") = 1
             /\ rt.trace[Len(rt.trace)].t = "ok"
             /\ ~rt.trace[Len(rt.trace)].v.image)
    /\ [][ gen.error = "no image" /\ gen'.error = "no image" => rt' = rt ]_vars

\* A response without image after a retried overload error: the run has
\* thrown and the response is the last entry of the trace.
C23_Witness ==
    /\ gen.pc = "thrown" /\ gen.error = "no image"
    /\ CountOf(rt.trace, "sleep") = 1 /\ CountOf(rt.trace, "call") = 2
    /\ rt.trace[Len(rt.trace)].t = "ok"

\* C24: the success state, the reward and the onRated timer follow only a
\* submitFeedback that resolved; one that rejected raises the alert, grants
\* nothing and leaves the form; either way isSubmitting is false again and
\* after a failure the submit button can be clicked again.
C24_FeedbackOutcomeHandled ==
    /\ (ui.isSuccess \/ ui.rewarded \/ ui.timer \/ ui.rated) =>
          ui.outcome = "resolved" /\ ~ui.alerted
    /\ ui.outcome = "resolved" => ui.isSuccess /\ ui.rewarded
    /\ ui.outcome = "rejected" =>
          /\ ui.alerted /\ ~ui.rewarded /\ ~ui.isSuccess /\ ~ui.timer
          /\ ENABLED ClickSubmit
    /\ ui.isSubmitting <=> ui.pc = "updating"

\* A rejected submission: alert raised, form usable.
C24_Witness ==
    /\ ui.outcome = "rejected" /\ ui.alerted /\ ~ui.isSubmitting
    /\ ui.mounted /\ ui.rating # 0

\* C27: without a hidden scene analysis a failed analysis call never ends
\* the run: the master prompt is built from the base description and the
\* render call is made; a run throws only for a missing API key, a failed
\* render call or a response without image.
C27_AnalysisFailureContained ==
    /\ [][ gen.pc = "analysis" =>
              /\ gen'.pc \in {"analysis", "render"}
              /\ gen'.branch = "fallback" =>
                    /\ gen'.pc = "render"
                    /\ gen'.renderText =
                          Some(RenderPromptOf(gen.options, BaseDescription(gen.options)))
                    /\ rt'.caller = "render" /\ rt'.pc = "calling" ]_vars
    /\ [](gen.branch = "fallback" =>
             /\ gen.renderText =
                   Some(RenderPromptOf(gen.options, BaseDescription(gen.options)))
             /\ gen.options.hiddenAIContext = <<>>)
    /\ [](gen.pc = "thrown" =>
             \/ gen.error = "API Key is missing"
             \/ gen.error \in {"render error", "no image"} /\ rt.caller = "render")

\* A run whose analysis call failed and which returned its image.
C27_Witness ==
    /\ gen.branch = "fallback" /\ gen.pc = "returned" /\ gen.imageUrl

-----------------------------------------------------------------------------
(* Termination of callWithRetry, checked under SpecRetryFair.              *)

\* C26: when every fn() promise settles and every backoff sleep ends, an
\* invocation of callWithRetry ends (it returns or throws), it never calls
\* fn more than `retries` times, and a backoff sleep (a transient failure
\* with attempts left) is always followed by another call of fn.
C26_RetryTerminates ==
    /\ <>RtDone(rt)
    /\ [](Calls <= rt.retries)
    /\ (rt.pc = "sleeping") ~> (rt.pc = "calling" /\ Calls = rt.i + 1)

\* An invocation that used all of its MaxAttempts attempts on transient
\* failures and threw.
C26_Witness ==
    /\ rt.retries = MaxAttempts
    /\ rt.pc = "thrown"
    /\ Calls = MaxAttempts
    /\ Len(Sleeps) = MaxAttempts - 1
-----------------------------------------------------------------------------
(* Rows that take no part in learning, checked under SpecLearn.            *)

\* The rows never rated or rated three or four stars, by position.
MidRows ==
    {k \in 1..Len(store) : store[k].rating \in {Null, Some(3), Some(4)}}

\* The tags of row k.
RowTags(k) ==
    IF IsNull(store[k].feedback_tags) THEN {}
    ELSE {store[k].feedback_tags[1][j] : j \in 1..Len(store[k].feedback_tags[1])}

-----------------------------------------------------------------------------
(* Concurrent callWithRetry invocations, checked under SpecPair.           *)

\* What invocation r has done is what it does alone: its j-th backoff sleep
\* lasts initialDelay * 2^(j-1), its current delay is initialDelay doubled
\* once per sleep that ended, it has called fn once plus once per sleep
\* that ended and never more than `retries` times, and each of its sleeps
\* follows a failure of its own.
RunsAsAlone(r) ==
    LET sl == Only(r.trace, "sleep")
        ended == Len(sl) - (IF r.pc = "sleeping" THEN 1 ELSE 0)
    IN /\ \A j \in 1..Len(sl) : sl[j].d = r.initialDelay * Pow2(j - 1)
       /\ r.delay = r.initialDelay * Pow2(ended)
       /\ r.i = ended
       /\ CountOf(r.trace, "call") = ended + 1
       /\ CountOf(r.trace, "call") <= r.retries
       /\ CountOf(r.trace, "fail") = Len(sl) + (IF r.pc = "thrown" THEN 1 ELSE 0)
       /\ CountOf(r.trace, "ok") = (IF r.pc = "returned" THEN 1 ELSE 0)

\* C25: in every interleaving of concurrent callWithRetry invocations each
\* invocation's attempt count and backoff delays are those of a lone run
\* from its own initial delay: counter and delay are not shared.
C25_InvocationsIndependent ==
    \A k \in 1..Len(pair) : RunsAsAlone(pair[k])

\* Two invocations with different initial delays, the first one attempt
\* ahead of the second, both past a backoff sleep.
C25_Witness ==
    /\ Len(pair) = 2
    /\ pair[1].initialDelay # pair[2].initialDelay
    /\ pair[1].i = 2 /\ pair[1].pc = "calling"
    /\ pair[2].i = 1 /\ pair[2].pc = "sleeping"

-----------------------------------------------------------------------------
(* generateIdeaRender and handleGenerate, checked under SpecIdea.          *)

\* C28: in the request of generateIdeaRender the part cited for an asset
\* with a picture ("Part #k", counted from 1 with the sketch first) is that
\* asset's own picture, for every asset list.
C28_CitedPartIsOwnImage ==
    ig.pc = "rendering" =>
        \A k \in 1..Len(ig.assets) :
            ig.assets[k] =>
               /\ ig.cites[k] <= Len(ig.parts)
               /\ ig.parts[ig.cites[k]] = <<"image", k>>

\* A render call is made by this step.
IdeaCalled == ig'.called = ig.called + 1

\* Credits never grow, they change only when a deduction completes, and
\* then by COST; isLoading is true exactly while handleGenerate waits.
IdeaBookkeeping ==
    /\ [](ig.isLoading <=> ig.pc \in {"deducting", "rendering"})
    /\ [][/\ ig'.deducted \in {ig.deducted, ig.deducted + 1}
          /\ ig'.credits = ig.credits - Cost * (ig'.deducted - ig.deducted)
          /\ ig'.called \in {ig.called, ig.called + 1}]_vars

\* A click with too few credits or without a sketch deducts nothing, calls
\* nothing and leaves isLoading false.
IdeaRefused ==
    [][(ig.pc = "idle" /\ ig'.clicks # ig.clicks
           /\ (ig.credits < Cost \/ ~ig.hasSketch))
        => /\ ig'.deducted = ig.deducted /\ ig'.called = ig.called
           /\ ig'.pc = "idle" /\ ~ig'.isLoading]_vars

\* C30 as stated: with too few credits or no sketch nothing is deducted and
\* generateIdeaRender is not called; otherwise every call of
\* generateIdeaRender follows the completed deduction of COST credits, a
\* failed deduction prevents the call, a failed render leaves the credits
\* as they are, and isLoading is false again when handleGenerate is over.
C30_DeductBeforeRender ==
    /\ IdeaBookkeeping
    /\ IdeaRefused
    /\ [][IdeaCalled => /\ ig.pc = "deducting"
                        /\ ig'.deducted = ig.deducted + 1]_vars
    /\ [](ig.called <= ig.deducted)

\* C30: the same, with the deduction made only when the onDeductCredits
\* prop is given: with it every render call follows its own completed
\* deduction and a failed deduction ends the handler; without it the render
\* call is made at the click and no credits are ever deducted.
C30_DeductBeforeRenderWhenGiven ==
    /\ IdeaBookkeeping
    /\ IdeaRefused
    /\ [][(IdeaCalled /\ ig.hasDeduct)
            => /\ ig.pc = "deducting"
               /\ ig'.deducted = ig.deducted + 1]_vars
    /\ [][(ig.pc = "deducting" /\ ig'.pc # "deducting"
              /\ ig'.deducted = ig.deducted)
            => /\ ~IdeaCalled /\ ig'.pc = "idle"
               /\ ig'.error # "none" /\ ~ig'.isLoading]_vars
    /\ [][(IdeaCalled /\ ~ig.hasDeduct)
            => /\ ig.pc = "idle" /\ ig'.clicks = ig.clicks + 1
               /\ ig.credits >= Cost /\ ig.hasSketch]_vars
    /\ [](ig.hasDeduct => ig.called = ig.deducted)
    /\ [](~ig.hasDeduct => ig.deducted = 0)

\* Two runs of a page with the onDeductCredits prop: both deductions
\* completed, both render calls were made, the last one failed, and the
\* credits are down by twice COST.
C30_Witness ==
    /\ ig.hasDeduct /\ ig.clicks = 2 /\ ig.deducted = 2 /\ ig.called = 2
    /\ ig.credits = 1
    /\ ig.pc = "idle" /\ ig.error = "render failed" /\ ~ig.isLoading
    /\ rt.pc = "thrown"
====
